---- MODULE Spec2Model ----
(***************************************************************************)
(* Model of the renshuu client's add-by-name operations                    *)
(* (src/src/client.py): RenshuuClient._request and the two compound        *)
(* operations add_word_by_schedule_name / add_word_by_list_name, and of    *)
(* the two servers that expose the client: the tool-call server            *)
(* (src/src/server.py) and the HTTP server (src/run_openapi_server.py).    *)
(*                                                                         *)
(* Python values are modelled as follows:                                  *)
(*   str            a sequence of one-character strings (so that lower()   *)
(*                  is computed character by character)                    *)
(*   dict           a function whose DOMAIN is the set of keys present     *)
(*   list           a sequence                                             *)
(*   None/str/int   tagged records JNull / JStr(s) / JInt(n), as they come  *)
(*                  out of a JSON body                                      *)
(* Every await of a remote call is a step boundary: the operation issues   *)
(* the call (appended to `calls`) and a later step receives the reply the  *)
(* remote service chose.                                                   *)
(***************************************************************************)
EXTENDS Integers, Sequences, FiniteSets, TLC

VARIABLES
  pc,              \* position of the running operation
  op,              \* which add-by-name operation is running
  container_name,  \* argument schedule_name / list_name
  word,            \* argument word
  calls,           \* remote calls issued by this invocation, in order
  catalog,         \* parsed body returned by get_schedules / get_lists
  scanned,         \* `schedules` / `all_lists`: the containers scanned
  matching,        \* matching_schedule / matching_list
  words,           \* the `words` list of the search response
  attach_reply,    \* what the remote service answered to the attach call
  outcomes,        \* per answered call: the answer's status line and whether
                   \* _request returned or raised
  result,          \* what the operation returned or raised
  env,             \* the environment: RENSHUU_WRITE_KEY, RENSHUU_READ_KEY
  facade,          \* the server process: "none" (the client is called
                   \* directly), "tool" (server.py) or "http"
                   \* (run_openapi_server.py)
  server,          \* "off", "running", "failed" (startup raised), "ended"
  conn,            \* the httpx.AsyncClient: whether one is open, how many
                   \* were opened and closed since the process started
  fpc,             \* position of the server's request handler
  req,             \* the request the handler is serving / served last
  response,        \* what the caller of the handler got for `req`
  log              \* the requests answered so far: what was asked for and
                   \* the kind of answer

cvars == <<pc, op, container_name, word, calls, catalog, scanned, matching,
           words, attach_reply, outcomes, result>>

fvars == <<env, facade, server, conn, fpc, req, response, log>>

vars == <<pc, op, container_name, word, calls, catalog, scanned, matching,
          words, attach_reply, outcomes, result,
          env, facade, server, conn, fpc, req, response, log>>

----------------------------------------------------------------------------
(* Bounds of the model *)

MaxCat == 2
MaxWords == 2

----------------------------------------------------------------------------
(* Python values *)

EmptyDict == [k \in {} |-> k]

JNull == [t |-> "null"]
JStr(s) == [t |-> "str", v |-> s]
JInt(n) == [t |-> "int", v |-> n]

\* dict.get(key, default)
Get(d, key, default) == IF key \in DOMAIN d THEN d[key] ELSE default

\* str.lower(), one character at a time
LowerChar(c) ==
  CASE c = "A" -> "a"
    [] c = "B" -> "b"
    [] c = "E" -> "e"
    [] OTHER -> c

Lower(s) == [i \in DOMAIN s |-> LowerChar(s[i])]

\* str(n) of a natural number: its decimal digits
Digits == <<"0", "1", "2", "3", "4", "5", "6", "7", "8", "9">>

RECURSIVE IntToStr(_)
IntToStr(n) ==
  IF n < 10 THEN <<Digits[n + 1]>>
  ELSE IntToStr(n \div 10) \o <<Digits[(n % 10) + 1]>>

\* str(x): a string is itself, an integer its digits, None is "None"
Str(x) ==
  CASE x.t = "str" -> x
    [] x.t = "int" -> JStr(IntToStr(x.v))
    [] x.t = "null" -> JStr(<<"N", "o", "n", "e">>)

\* str(d.get(key))
StrOfGet(d, key) == Str(Get(d, key, JNull))

\* Python truthiness of a dict
Truthy(d) == DOMAIN d # {}


----------------------------------------------------------------------------
(* The remote service's answers and RenshuuClient._request *)

\* Status codes the remote service answers with
Statuses == {200, 404, 500}

\* The text of a body that is not JSON
RawText == "<html>Bad Gateway</html>"

\* What can come back for one call whose successful JSON bodies are `bodies`:
\* no answer within the 30 s timeout, an answer with a JSON body, or an answer
\* whose body is not JSON.  An error status carries the service's error JSON.
Replies(bodies) ==
  {[t |-> "timeout"]}
    \cup {[t |-> "response", status |-> 200, json |-> TRUE, body |-> b] :
            b \in bodies}
    \cup {[t |-> "response", status |-> s, json |-> TRUE,
           body |-> [error |-> "remote error"]] : s \in Statuses \ {200}}
    \cup {[t |-> "response", status |-> 200, json |-> FALSE, text |-> RawText]}

\* httpx.Response.is_success
IsSuccess(status) == status >= 200 /\ status <= 299

RaisesForStatus_never(reply) == FALSE

\* response.raise_for_status(): raises on a status that is not a success
RaisesForStatus(reply) == ~IsSuccess(reply.status)

\* RenshuuClient._request after the await: the value returned or the
\* exception raised for a given answer of the remote service
request(reply) ==
  IF reply.t = "timeout"
    THEN [t |-> "raise", exc |-> "TimeoutException"]
  ELSE IF RaisesForStatus(reply)
    THEN [t |-> "raise", exc |-> "HTTPStatusError", status |-> reply.status]
  ELSE IF ~reply.json
    THEN [t |-> "raise", exc |-> "JSONDecodeError"]
  ELSE [t |-> "return", value |-> reply.body]

\* What the call log keeps of an answer: the answer without its body, and
\* whether _request returned or raised on it
Answered(reply) ==
  [reply |-> IF reply.t = "timeout" THEN [t |-> "timeout"]
             ELSE [t |-> "response", status |-> reply.status,
                   json |-> reply.json],
   outcome |-> request(reply).t]

\* One remote call as issued through httpx: method, endpoint, query parameters
Call(method, endpoint, params) ==
  [method |-> method, endpoint |-> endpoint, params |-> params]

\* The client methods used by the add-by-name operations
get_schedules == Call("GET", <<"/schedule">>, EmptyDict)
get_lists == Call("GET", <<"/lists">>, EmptyDict)
search_words(value, pg) ==
  Call("GET", <<"/word/search">>, [value |-> value, pg |-> pg])
add_word_to_list(word_id, list_id) ==
  Call("PUT", <<"/word/">> \o word_id.v, [list_id |-> list_id])
\* (mutant) the schedule is passed under the list's parameter key
add_word_to_schedule_list_key(word_id, schedule_id) ==
  Call("PUT", <<"/word/">> \o word_id.v, [list_id |-> schedule_id])

add_word_to_schedule(word_id, schedule_id) ==
  Call("PUT", <<"/word/">> \o word_id.v, [sched_id |-> schedule_id])


----------------------------------------------------------------------------
(* The inputs: arguments of the operations and bodies the service returns *)

\* Display names of containers: "", "a", "A", "ab"
Names == {<<>>, <<"a">>, <<"A">>, <<"a", "b">>}

\* Container names the caller asks for: "", "A", "ab"
Targets == {<<>>, <<"A">>, <<"a", "b">>}

\* Search terms
Queries == {<<"E", "a", "t">>}

\* The keys under which the two kinds of container carry id and display name
IdKey(kind) == IF kind = "schedule" THEN "id" ELSE "list_id"
NameKey(kind) == IF kind = "schedule" THEN "name" ELSE "title"

\* Sequences over S of length at most n
BSeq(S, n) == UNION {[1..k -> S] : k \in 0..n}

\* The i-th container of a catalog, in traversal order: the service's ids
\* are distinct, so the i-th is given the number i; its display name is a string,
\* null or missing; an entry may also be an empty object
ContainerOptions(kind, i) ==
  {EmptyDict}
    \cup {(IdKey(kind) :> JInt(i)) @@ np :
            np \in {EmptyDict, NameKey(kind) :> JNull}
                     \cup {NameKey(kind) :> JStr(n) : n \in Names}}

\* The sequences of exactly n containers, and of at most MaxCat containers
RECURSIVE ContainersOfLen(_, _)
ContainersOfLen(kind, n) ==
  IF n = 0 THEN {<<>>}
  ELSE {Append(c, e) : c \in ContainersOfLen(kind, n - 1),
                       e \in ContainerOptions(kind, n)}

Containers(kind) == UNION {ContainersOfLen(kind, n) : n \in 0..MaxCat}

\* Bodies of GET /schedule: {"schedules": [...]} or an object without the key
ScheduleBodies ==
  {EmptyDict} \cup {[schedules |-> c] : c \in Containers("schedule")}

RECURSIVE Sum(_)
Sum(s) == IF s = <<>> THEN 0 ELSE Head(s) + Sum(Tail(s))

\* A shape of the nested list catalog: per termtype group, the number of
\* lists of each of its subgroups (at most two groups of at most two
\* subgroups; a group may have no subgroup, and a subgroup without lists
\* stands alone or before a subgroup of one list)
Total(sh) == Sum([g \in DOMAIN sh |-> Sum(sh[g])])
Shapes ==
  {sh \in BSeq(BSeq(1..MaxCat, 2), 2) : Total(sh) <= MaxCat}
    \cup {<<<<0>>>>, <<<<0, 1>>>>}

\* Number of lists that precede subgroup s of group g in traversal order
Offset(sh, g, s) ==
  Sum([h \in 1..(g - 1) |-> Sum(sh[h])]) + Sum(SubSeq(sh[g], 1, s - 1))

\* The nested body of GET /lists that holds the lists `flat` in shape `sh`
Nest(flat, sh) ==
  [termtype_groups |->
     [g \in DOMAIN sh |->
        [groups |->
           [s \in DOMAIN sh[g] |->
              [lists |-> SubSeq(flat, Offset(sh, g, s) + 1,
                                Offset(sh, g, s) + sh[g][s])]]]]]

\* Bodies of GET /lists; a group or subgroup may also lack its key
ListBodies ==
  {EmptyDict,
   [termtype_groups |-> <<EmptyDict>>],
   [termtype_groups |-> <<[groups |-> <<EmptyDict>>]>>]}
    \cup {Nest(p[1], p[2]) :
            p \in {q \in Containers("list") \X Shapes : Total(q[2]) = Len(q[1])}}

\* The i-th result of a word search: a full entry, or an object that has
\* neither an id nor display fields
WordOptions(i) ==
  {EmptyDict,
   [id |-> JInt(40 + i), kanji_full |-> JStr(<<"K">> \o IntToStr(i)),
    hiragana_full |-> JStr(<<"h">> \o IntToStr(i)),
    def |-> <<JStr(<<"d">> \o IntToStr(i))>>]}

\* The sequences of exactly n search results
RECURSIVE WordsOfLen(_)
WordsOfLen(n) ==
  IF n = 0 THEN {<<>>}
  ELSE {Append(w, e) : w \in WordsOfLen(n - 1), e \in WordOptions(n)}

\* Bodies of GET /word/search: {"words": [...]} or an object without the key
WordBodies ==
  {EmptyDict} \cup {[words |-> w] : w \in UNION {WordsOfLen(n) : n \in 0..MaxWords}}

\* Bodies of a successful PUT /word/{id}
AttachBodies == {[result |-> "OK"]}

----------------------------------------------------------------------------
(* The add-by-name operations *)

NoResult == [t |-> "none"]
Return(value) == [t |-> "return", value |-> value]
NoMatch == [t |-> "none"]

FindMatching_last(entries, i, key, target) ==
  LET named == {j \in i..Len(entries) :
                  Get(entries[j], key, JStr(<<>>)).t = "str"}
      hits == {j \in named :
                 Lower(Get(entries[j], key, JStr(<<>>)).v) = Lower(target)}
  IN IF named # i..Len(entries)
       THEN [t |-> "raise", exc |-> "AttributeError"]
     ELSE IF hits = {} THEN NoMatch
     ELSE [t |-> "found",
           entry |-> entries[CHOOSE j \in hits : \A k \in hits : k <= j]]

\* The loop `for x in entries: if x.get(key, "").lower() == target.lower():
\* matching = x; break`, from entry i on.  The default "" applies only when
\* the key is missing: a null display name is None, and None.lower() raises.
RECURSIVE FindMatching(_, _, _, _)
FindMatching(entries, i, key, target) ==
  IF i > Len(entries) THEN NoMatch
  ELSE LET name == Get(entries[i], key, JStr(<<>>))
       IN IF name.t = "null"
            THEN [t |-> "raise", exc |-> "AttributeError"]
          ELSE IF Lower(name.v) = Lower(target)
            THEN [t |-> "found", entry |-> entries[i]]
          ELSE FindMatching(entries, i + 1, key, target)

\* (mutant) the not-found check is skipped
NotMatching_unchecked(m) == FALSE

\* `if not matching`: nothing was matched, or the matched entry is an empty
\* object
NotMatching(m) == m.t = "none" \/ (m.t = "found" /\ ~Truthy(m.entry))

\* [x.get(key) for x in entries]
AvailableNames(entries, key) ==
  [i \in DOMAIN entries |-> Get(entries[i], key, JNull)]

\* The flattening loops of add_word_by_list_name
RECURSIVE Extend(_)
Extend(seqs) == IF seqs = <<>> THEN <<>> ELSE Head(seqs) \o Extend(Tail(seqs))

AllLists(lists_response) ==
  LET termtype_groups == Get(lists_response, "termtype_groups", <<>>)
      ListsOfGroup(group) ==
        LET groups == Get(group, "groups", <<>>)
        IN Extend([s \in DOMAIN groups |-> Get(groups[s], "lists", <<>>)])
  IN Extend([g \in DOMAIN termtype_groups |-> ListsOfGroup(termtype_groups[g])])

ScheduleNotFound(schedule_name, schedules) ==
  [error |-> <<"Schedule '">> \o schedule_name \o <<"' not found">>,
   available_schedules |-> AvailableNames(schedules, "name")]

ListNotFound(list_name, all_lists) ==
  [error |-> <<"List '">> \o list_name \o <<"' not found">>,
   available_lists |-> AvailableNames(all_lists, "title")]

WordNotFound(w) ==
  [error |-> <<"Word '">> \o w \o <<"' not found in dictionary">>]

\* words[0]: the search result the operation uses
LastWord(ws) == ws[Len(ws)]

FirstWord(ws) == ws[1]

WordInfo_raw_id(first) ==
  [id |-> Get(first, "id", JNull),
   kanji |-> Get(first, "kanji_full", JStr(<<>>)),
   hiragana |-> Get(first, "hiragana_full", JStr(<<>>)),
   definitions |-> Get(first, "def", <<>>)]

\* The "word" object of a success result, built from words[0]
WordInfo(first) ==
  [id |-> StrOfGet(first, "id"),
   kanji |-> Get(first, "kanji_full", JStr(<<>>)),
   hiragana |-> Get(first, "hiragana_full", JStr(<<>>)),
   definitions |-> Get(first, "def", <<>>)]

ScheduleSuccess(matching_schedule, first, add_response) ==
  [success |-> TRUE,
   schedule |-> [id |-> StrOfGet(matching_schedule, "id"),
                 name |-> Get(matching_schedule, "name", JNull)],
   word |-> WordInfo(first),
   api_response |-> add_response]

ListSuccess(matching_list, first, add_response) ==
  [success |-> TRUE,
   list |-> [id |-> StrOfGet(matching_list, "list_id"),
             name |-> Get(matching_list, "title", JNull)],
   word |-> WordInfo(first),
   api_response |-> add_response]


----------------------------------------------------------------------------
(* State machine *)

NoReply == [t |-> "none"]

\* Both credential variables of the environment, each unset ("") or set
NoEnv == [RENSHUU_WRITE_KEY |-> "", RENSHUU_READ_KEY |-> ""]
NoConn == [open |-> FALSE, opened |-> 0, closed |-> 0]
NoRequest == [t |-> "none"]
NoResponse == [t |-> "none"]

\* No server process: the operations are invoked on the client directly
NoServer ==
  /\ env = NoEnv
  /\ facade = "none"
  /\ server = "off"
  /\ conn = NoConn
  /\ fpc = "idle"
  /\ req = NoRequest
  /\ response = NoResponse
  /\ log = <<>>

\* The state of the client between invocations
ClientIdle ==
  /\ pc = "idle"
  /\ op = "none"
  /\ container_name = <<>>
  /\ word = <<>>
  /\ calls = <<>>
  /\ catalog = EmptyDict
  /\ scanned = <<>>
  /\ matching = NoMatch
  /\ words = <<>>
  /\ attach_reply = NoReply
  /\ outcomes = <<>>
  /\ result = NoResult

Init ==
  /\ NoServer
  /\ pc = "idle"
  /\ op = "none"
  /\ container_name = <<>>
  /\ word = <<>>
  /\ calls = <<>>
  /\ catalog = EmptyDict
  /\ scanned = <<>>
  /\ matching = NoMatch
  /\ words = <<>>
  /\ attach_reply = NoReply
  /\ outcomes = <<>>
  /\ result = NoResult

\* The operation ends by raising exception `r`
Raise(r) ==
  /\ result' = r
  /\ pc' = "done"

\* add_word_by_schedule_name is called: it issues get_schedules and awaits
schedule_begin(schedule_name, w) ==
  /\ pc = "idle"
  /\ op' = "add_word_by_schedule_name"
  /\ container_name' = schedule_name
  /\ word' = w
  /\ calls' = <<get_schedules>>
  /\ pc' = "get_schedules"
  /\ UNCHANGED <<catalog, scanned, matching, words, attach_reply, outcomes,
               result>>

\* get_schedules answered: find the schedule, then issue search_words
schedule_resolve(reply) ==
  /\ pc = "get_schedules"
  /\ op = "add_word_by_schedule_name"
  /\ outcomes' = Append(outcomes, Answered(reply))
  /\ LET schedules_response == request(reply)
     IN IF schedules_response.t = "raise"
          THEN /\ Raise(schedules_response)
               /\ UNCHANGED <<catalog, scanned, matching, calls>>
          ELSE LET schedules == Get(schedules_response.value, "schedules", <<>>)
                   m == FindMatching(schedules, 1, "name", container_name)
               IN /\ catalog' = schedules_response.value
                  /\ scanned' = schedules
                  /\ IF m.t = "raise"
                       THEN /\ Raise(m)
                            /\ UNCHANGED <<matching, calls>>
                     ELSE IF NotMatching(m)
                       THEN /\ matching' = m
                            /\ result' =
                                 Return(ScheduleNotFound(container_name, schedules))
                            /\ pc' = "done"
                            /\ UNCHANGED calls
                     ELSE /\ matching' = m
                          /\ calls' = Append(calls, search_words(word, 1))
                          /\ pc' = "search_words"
                          /\ UNCHANGED result
  /\ UNCHANGED <<op, container_name, word, words, attach_reply>>

\* (mutant) the attach call is issued without checking that a word was found
schedule_search_unchecked(reply) ==
  /\ pc = "search_words"
  /\ op = "add_word_by_schedule_name"
  /\ outcomes' = Append(outcomes, Answered(reply))
  /\ LET word_search_response == request(reply)
     IN IF word_search_response.t = "raise"
          THEN /\ Raise(word_search_response)
               /\ UNCHANGED <<words, calls>>
          ELSE LET ws == Get(word_search_response.value, "words", <<>>)
               IN /\ words' = ws
                  /\ calls' =
                       Append(calls,
                              add_word_to_schedule(
                                IF ws = <<>> THEN Str(JNull)
                                ELSE StrOfGet(FirstWord(ws), "id"),
                                StrOfGet(matching.entry, "id")))
                  /\ pc' = "add_word_to_schedule"
                  /\ UNCHANGED result
  /\ UNCHANGED <<op, container_name, word, catalog, scanned, matching,
                 attach_reply>>

\* search_words answered: take words[0], then issue add_word_to_schedule
schedule_search(reply) ==
  /\ pc = "search_words"
  /\ op = "add_word_by_schedule_name"
  /\ outcomes' = Append(outcomes, Answered(reply))
  /\ LET word_search_response == request(reply)
     IN IF word_search_response.t = "raise"
          THEN /\ Raise(word_search_response)
               /\ UNCHANGED <<words, calls>>
          ELSE LET ws == Get(word_search_response.value, "words", <<>>)
               IN /\ words' = ws
                  /\ IF ws = <<>>
                       THEN /\ result' = Return(WordNotFound(word))
                            /\ pc' = "done"
                            /\ UNCHANGED calls
                       ELSE /\ calls' =
                                 Append(calls,
                                        add_word_to_schedule(
                                          StrOfGet(FirstWord(ws), "id"),
                                          StrOfGet(matching.entry, "id")))
                            /\ pc' = "add_word_to_schedule"
                            /\ UNCHANGED result
  /\ UNCHANGED <<op, container_name, word, catalog, scanned, matching,
               attach_reply>>

\* (mutant) a failed attach call is issued again
schedule_attach_retry(reply) ==
  /\ pc = "add_word_to_schedule"
  /\ op = "add_word_by_schedule_name"
  /\ attach_reply' = reply
  /\ outcomes' = Append(outcomes, Answered(reply))
  /\ LET add_response == request(reply)
     IN IF add_response.t = "raise"
          THEN /\ calls' = Append(calls, calls[Len(calls)])
               /\ UNCHANGED <<pc, result>>
          ELSE /\ result' = Return(ScheduleSuccess(matching.entry,
                                                   FirstWord(words),
                                                   add_response.value))
               /\ pc' = "done"
               /\ UNCHANGED calls
  /\ UNCHANGED <<op, container_name, word, catalog, scanned, matching, words>>

\* add_word_to_schedule answered: build the success result
schedule_attach(reply) ==
  /\ pc = "add_word_to_schedule"
  /\ op = "add_word_by_schedule_name"
  /\ attach_reply' = reply
  /\ outcomes' = Append(outcomes, Answered(reply))
  /\ LET add_response == request(reply)
     IN IF add_response.t = "raise"
          THEN Raise(add_response)
          ELSE /\ result' = Return(ScheduleSuccess(matching.entry, FirstWord(words),
                                                   add_response.value))
               /\ pc' = "done"
  /\ UNCHANGED <<op, container_name, word, calls, catalog, scanned, matching,
               words>>


\* add_word_by_list_name is called: it issues get_lists and awaits
list_begin(list_name, w) ==
  /\ pc = "idle"
  /\ op' = "add_word_by_list_name"
  /\ container_name' = list_name
  /\ word' = w
  /\ calls' = <<get_lists>>
  /\ pc' = "get_lists"
  /\ UNCHANGED <<catalog, scanned, matching, words, attach_reply, outcomes,
               result>>

\* get_lists answered: flatten, find the list, then issue search_words
list_resolve(reply) ==
  /\ pc = "get_lists"
  /\ op = "add_word_by_list_name"
  /\ outcomes' = Append(outcomes, Answered(reply))
  /\ LET lists_response == request(reply)
     IN IF lists_response.t = "raise"
          THEN /\ Raise(lists_response)
               /\ UNCHANGED <<catalog, scanned, matching, calls>>
          ELSE LET all_lists == AllLists(lists_response.value)
                   m == FindMatching(all_lists, 1, "title", container_name)
               IN /\ catalog' = lists_response.value
                  /\ scanned' = all_lists
                  /\ IF m.t = "raise"
                       THEN /\ Raise(m)
                            /\ UNCHANGED <<matching, calls>>
                     ELSE IF NotMatching(m)
                       THEN /\ matching' = m
                            /\ result' =
                                 Return(ListNotFound(container_name, all_lists))
                            /\ pc' = "done"
                            /\ UNCHANGED calls
                     ELSE /\ matching' = m
                          /\ calls' = Append(calls, search_words(word, 1))
                          /\ pc' = "search_words"
                          /\ UNCHANGED result
  /\ UNCHANGED <<op, container_name, word, words, attach_reply>>

\* search_words answered: take words[0], then issue add_word_to_list
list_search(reply) ==
  /\ pc = "search_words"
  /\ op = "add_word_by_list_name"
  /\ outcomes' = Append(outcomes, Answered(reply))
  /\ LET word_search_response == request(reply)
     IN IF word_search_response.t = "raise"
          THEN /\ Raise(word_search_response)
               /\ UNCHANGED <<words, calls>>
          ELSE LET ws == Get(word_search_response.value, "words", <<>>)
               IN /\ words' = ws
                  /\ IF ws = <<>>
                       THEN /\ result' = Return(WordNotFound(word))
                            /\ pc' = "done"
                            /\ UNCHANGED calls
                       ELSE /\ calls' =
                                 Append(calls,
                                        add_word_to_list(
                                          StrOfGet(FirstWord(ws), "id"),
                                          StrOfGet(matching.entry, "list_id")))
                            /\ pc' = "add_word_to_list"
                            /\ UNCHANGED result
  /\ UNCHANGED <<op, container_name, word, catalog, scanned, matching,
               attach_reply>>

\* add_word_to_list answered: build the success result
list_attach(reply) ==
  /\ pc = "add_word_to_list"
  /\ op = "add_word_by_list_name"
  /\ attach_reply' = reply
  /\ outcomes' = Append(outcomes, Answered(reply))
  /\ LET add_response == request(reply)
     IN IF add_response.t = "raise"
          THEN Raise(add_response)
          ELSE /\ result' = Return(ListSuccess(matching.entry, FirstWord(words),
                                               add_response.value))
               /\ pc' = "done"
  /\ UNCHANGED <<op, container_name, word, calls, catalog, scanned, matching,
               words>>

finish_keeps_catalog ==
  /\ pc = "done"
  /\ pc' = "idle"
  /\ op' = "none"
  /\ container_name' = <<>>
  /\ word' = <<>>
  /\ calls' = <<>>
  /\ words' = <<>>
  /\ attach_reply' = NoReply
  /\ outcomes' = <<>>
  /\ result' = NoResult
  /\ UNCHANGED <<catalog, scanned, matching>>

\* The caller has the result; the client is ready for the next invocation,
\* which keeps nothing of this one
finish ==
  /\ pc = "done"
  /\ pc' = "idle"
  /\ op' = "none"
  /\ container_name' = <<>>
  /\ word' = <<>>
  /\ calls' = <<>>
  /\ catalog' = EmptyDict
  /\ scanned' = <<>>
  /\ matching' = NoMatch
  /\ words' = <<>>
  /\ attach_reply' = NoReply
  /\ outcomes' = <<>>
  /\ result' = NoResult

\* The answers the remote service can give to each call
ScheduleReplies == Replies(ScheduleBodies)
ListReplies == Replies(ListBodies)
SearchReplies == Replies(WordBodies)
AttachReplies == Replies(AttachBodies)

\* A step of the client leaves the server process as it is
Direct == UNCHANGED fvars

Next ==
  \/ Direct /\ \E n \in Targets, w \in Queries : schedule_begin(n, w)
  \/ Direct /\ pc = "get_schedules"
       /\ \E reply \in ScheduleReplies : schedule_resolve(reply)
  \/ Direct /\ pc = "search_words"
       /\ \E reply \in SearchReplies : schedule_search(reply)
  \/ Direct /\ pc = "add_word_to_schedule"
       /\ \E reply \in AttachReplies : schedule_attach(reply)
  \/ Direct /\ \E n \in Targets, w \in Queries : list_begin(n, w)
  \/ Direct /\ pc = "get_lists"
       /\ \E reply \in ListReplies : list_resolve(reply)
  \/ Direct /\ pc = "search_words"
       /\ \E reply \in SearchReplies : list_search(reply)
  \/ Direct /\ pc = "add_word_to_list"
       /\ \E reply \in AttachReplies : list_attach(reply)
  \/ Direct /\ finish

Spec == Init /\ [][Next]_vars


----------------------------------------------------------------------------
(* The servers: credentials and the tool table *)

\* The number of requests a server run answers in the model
MaxRequests == 2

\* Python's `a or b` on str | None, None and "" both modelled as ""
Or(a, b) == IF a # "" THEN a ELSE b

Envs ==
  [RENSHUU_WRITE_KEY : {"", "write-key"}, RENSHUU_READ_KEY : {"", "read-key"}]

\* run_openapi_server.py: API_KEY = getenv(WRITE) or getenv(READ)
API_KEY == Or(env.RENSHUU_WRITE_KEY, env.RENSHUU_READ_KEY)

\* RenshuuClient.__init__: self.api_key, and `if not self.api_key: raise`
api_key(given) ==
  Or(given, Or(env.RENSHUU_WRITE_KEY, env.RENSHUU_READ_KEY))

InitRaises(given) == api_key(given) = ""

ValueErrorNoKey == [t |-> "raise", exc |-> "ValueError: API key not found"]

\* __aenter__ / __aexit__: an httpx.AsyncClient is created / closed
Open(c) == [open |-> TRUE, opened |-> c.opened + 1, closed |-> c.closed]
Close(c) ==
  IF c.open THEN [open |-> FALSE, opened |-> c.opened, closed |-> c.closed + 1]
  ELSE c

\* str(exc): the text is determined by the exception, and by the status an
\* HTTPStatusError carries or the key a KeyError names
Message(r) ==
  <<r.exc>> \o (IF "status" \in DOMAIN r THEN IntToStr(r.status)
                ELSE IF "key" \in DOMAIN r THEN <<r.key>>
                ELSE <<>>)

\* Tool names that call_tool passes to the two add-by-name operations
ByNameTools == {"add_word_by_schedule_name", "add_word_by_list_name"}

\* The names list_tools returns, in the order of the source
ListedTools ==
  {"get_profile", "get_schedules", "get_schedule", "get_schedule_terms",
   "get_lists", "get_list", "get_all_studied_terms", "search_words",
   "get_word", "add_word_to_schedule", "add_word_to_list",
   "remove_word_from_schedule", "remove_word_from_list",
   "add_word_by_schedule_name", "search_kanji", "get_kanji",
   "add_kanji_to_schedule", "add_kanji_to_list",
   "remove_kanji_from_schedule", "remove_kanji_from_list",
   "add_grammar_to_list", "remove_grammar_from_schedule",
   "remove_grammar_from_list", "search_grammar", "get_grammar",
   "add_grammar_to_schedule", "search_sentences", "get_sentences_for_word"}

\* arguments["k"] of each branch of call_tool, in evaluation order
Required(name) ==
  CASE name \in {"get_profile", "get_schedules", "get_lists"} -> <<>>
    [] name \in {"get_schedule", "get_schedule_terms"} -> <<"schedule_id">>
    [] name = "get_list" -> <<"list_id">>
    [] name = "get_all_studied_terms" -> <<"termtype">>
    [] name \in {"search_words", "search_kanji", "search_grammar",
                 "search_sentences"} -> <<"query">>
    [] name \in {"get_word", "get_sentences_for_word"} -> <<"word_id">>
    [] name \in {"add_word_to_schedule", "remove_word_from_schedule"}
         -> <<"word_id", "schedule_id">>
    [] name \in {"add_word_to_list", "remove_word_from_list"}
         -> <<"word_id", "list_id">>
    [] name = "add_word_by_schedule_name" -> <<"schedule_name", "word">>
    [] name = "add_word_by_list_name" -> <<"list_name", "word">>
    [] name = "get_kanji" -> <<"kanji">>
    [] name \in {"add_kanji_to_schedule", "remove_kanji_from_schedule"}
         -> <<"kanji", "schedule_id">>
    [] name \in {"add_kanji_to_list", "remove_kanji_from_list"}
         -> <<"kanji", "list_id">>
    [] name = "get_grammar" -> <<"grammar_id">>
    [] name \in {"add_grammar_to_schedule", "remove_grammar_from_schedule"}
         -> <<"grammar_id", "schedule_id">>
    [] name \in {"add_grammar_to_list", "remove_grammar_from_list"}
         -> <<"grammar_id", "list_id">>

\* The names that have a branch in call_tool's if/elif chain
DispatchedTools ==
  {"get_profile", "get_schedules", "get_schedule", "get_schedule_terms",
   "get_lists", "get_list", "get_all_studied_terms", "search_words",
   "get_word", "add_word_to_schedule", "add_word_to_list",
   "remove_word_from_schedule", "remove_word_from_list",
   "add_word_by_schedule_name", "add_word_by_list_name", "search_kanji",
   "get_kanji", "add_kanji_to_schedule", "add_kanji_to_list",
   "remove_kanji_from_schedule", "remove_kanji_from_list", "search_grammar",
   "get_grammar", "add_grammar_to_schedule", "add_grammar_to_list",
   "remove_grammar_from_schedule", "remove_grammar_from_list",
   "search_sentences", "get_sentences_for_word"}

\* arguments.get("page", 1) and the like
Page(a) == IF "page" \in DOMAIN a THEN a.page ELSE 1
Group(a) == IF "group" \in DOMAIN a THEN a.group ELSE "all"

\* The remote call of the client method that a one-call tool is passed to
ToolCall(name, a) ==
  CASE name = "get_profile" -> Call("GET", <<"/profile">>, EmptyDict)
    [] name = "get_schedules" -> get_schedules
    [] name = "get_schedule" ->
         Call("GET", <<"/schedule/">> \o a.schedule_id, EmptyDict)
    [] name = "get_schedule_terms" ->
         Call("GET", <<"/schedule/">> \o a.schedule_id \o <<"/list">>,
              [pg |-> Page(a), group |-> Group(a)])
    [] name = "get_lists" -> get_lists
    [] name = "get_list" ->
         Call("GET", <<"/list/">> \o a.list_id, [pg |-> Page(a)])
    [] name = "get_all_studied_terms" ->
         Call("GET", <<"/list/all/">> \o a.termtype, [pg |-> Page(a)])
    [] name = "search_words" -> search_words(a.query, Page(a))
    [] name = "get_word" -> Call("GET", <<"/word/">> \o a.word_id, EmptyDict)
    [] name = "add_word_to_schedule" ->
         Call("PUT", <<"/word/">> \o a.word_id, [sched_id |-> a.schedule_id])
    [] name = "add_word_to_list" ->
         Call("PUT", <<"/word/">> \o a.word_id, [list_id |-> a.list_id])
    [] name = "remove_word_from_schedule" ->
         Call("DELETE", <<"/word/">> \o a.word_id,
              [sched_id |-> a.schedule_id])
    [] name = "remove_word_from_list" ->
         Call("DELETE", <<"/word/">> \o a.word_id, [list_id |-> a.list_id])
    [] name = "search_kanji" ->
         Call("GET", <<"/kanji/search">>, [value |-> a.query])
    [] name = "get_kanji" -> Call("GET", <<"/kanji/">> \o a.kanji, EmptyDict)
    [] name = "add_kanji_to_schedule" ->
         Call("PUT", <<"/kanji/">> \o a.kanji, [sched_id |-> a.schedule_id])
    [] name = "add_kanji_to_list" ->
         Call("PUT", <<"/kanji/">> \o a.kanji, [list_id |-> a.list_id])
    [] name = "remove_kanji_from_schedule" ->
         Call("DELETE", <<"/word/">> \o a.kanji, [sched_id |-> a.schedule_id])
    [] name = "remove_kanji_from_list" ->
         Call("DELETE", <<"/kanji/">> \o a.kanji, [list_id |-> a.list_id])
    [] name = "search_grammar" ->
         Call("GET", <<"/grammar/search">>,
              [value |-> a.query, pg |-> Page(a)])
    [] name = "get_grammar" ->
         Call("GET", <<"/grammar/">> \o a.grammar_id, EmptyDict)
    [] name = "add_grammar_to_schedule" ->
         Call("PUT", <<"/grammar/">> \o a.grammar_id,
              [sched_id |-> a.schedule_id])
    [] name = "add_grammar_to_list" ->
         Call("PUT", <<"/grammar/">> \o a.grammar_id, [list_id |-> a.list_id])
    [] name = "remove_grammar_from_schedule" ->
         Call("DELETE", <<"/grammar/">> \o a.grammar_id,
              [sched_id |-> a.schedule_id])
    [] name = "remove_grammar_from_list" ->
         Call("DELETE", <<"/grammar/">> \o a.grammar_id,
              [list_id |-> a.list_id])
    [] name = "search_sentences" ->
         Call("GET", <<"/reibun/search">>, [value |-> a.query])
    [] name = "get_sentences_for_word" ->
         Call("GET", <<"/reibun/search/">> \o a.word_id, EmptyDict)

----------------------------------------------------------------------------
(* The servers: request handlers *)

\* What the caller of a handler gets
TextContent(data) == [t |-> "content", type |-> "text", data |-> data]
JSONResponse(content, status_code) ==
  [t |-> "http", status_code |-> status_code, body |-> content]
Escaped(r) == [t |-> "escaped", exc |-> Message(r)]

\* What the history keeps of an answered request: the tool or route asked
\* for (unknown tool names as such) and the kind of answer
Summary(r, resp) ==
  [asked |-> IF r.t = "http" THEN r.route
             ELSE IF r.name \in DispatchedTools THEN "known tool"
             ELSE "unknown tool",
   answer |-> IF resp.t = "http" THEN IF resp.status_code < 400 THEN "ok"
                                      ELSE "error"
              ELSE IF resp.t = "escaped" THEN "escaped"
              ELSE IF "error" \in DOMAIN resp.data THEN "error"
              ELSE "ok"]

\* The handler answers request r with `resp` without having called the client
Answer(r, resp) ==
  /\ req' = r
  /\ response' = resp
  /\ log' = Append(log, Summary(r, resp))
  /\ fpc' = "idle"
  /\ UNCHANGED cvars

\* The handler has called the client for request r and awaits it
Await(r) ==
  /\ req' = r
  /\ response' = NoResponse
  /\ fpc' = "awaiting"
  /\ UNCHANGED log

\* The handler answers `req` with `resp` after the client has finished
Reply(resp) ==
  /\ response' = resp
  /\ log' = Append(log, Summary(req, resp))
  /\ fpc' = "answered"
  /\ UNCHANGED req
  /\ UNCHANGED cvars

\* The handler is gone: nothing of the finished invocation is kept
handler_done ==
  /\ server = "running"
  /\ fpc = "answered"
  /\ fpc' = "idle"
  /\ finish
  /\ UNCHANGED <<env, facade, server, conn, req, response, log>>

client_is_None_always == TRUE

\* server.py `client`: set by main() when the session starts, never reset
client_is_None == ~(facade = "tool" /\ server \in {"running", "ended"})

\* The first of the required arguments that `arguments` lacks, if any
Missing(name, arguments) ==
  SelectSeq(Required(name), LAMBDA k : k \notin DOMAIN arguments)

KeyError(k) == [t |-> "raise", exc |-> "KeyError", key |-> k]

\* A client method that issues one remote call and returns what _request
\* returns
tool_begin(name, arguments) ==
  /\ pc = "idle"
  /\ op' = name
  /\ calls' = <<ToolCall(name, arguments)>>
  /\ pc' = "tool_request"
  /\ UNCHANGED <<container_name, word, catalog, scanned, matching, words,
                 attach_reply, outcomes, result>>

tool_reply(reply) ==
  /\ pc = "tool_request"
  /\ outcomes' = Append(outcomes, Answered(reply))
  /\ result' = request(reply)
  /\ pc' = "done"
  /\ UNCHANGED <<op, container_name, word, calls, catalog, scanned, matching,
                 words, attach_reply>>

\* server.py main(): RenshuuClient() raises without a credential; otherwise
\* the connection is opened, `client` is set and the session runs
tool_main ==
  /\ facade = "tool"
  /\ server = "off"
  /\ IF InitRaises("")
       THEN /\ server' = "failed"
            /\ response' = Escaped(ValueErrorNoKey)
            /\ UNCHANGED conn
       ELSE /\ server' = "running"
            /\ conn' = Open(conn)
            /\ UNCHANGED response
  /\ UNCHANGED <<env, facade, fpc, req, log>>
  /\ UNCHANGED cvars

\* call_tool up to its first await
call_tool(name, arguments) ==
  /\ facade = "tool"
  /\ server = "running"
  /\ fpc = "idle"
  /\ Len(log) < MaxRequests
  /\ LET r == [t |-> "tool", name |-> name, arguments |-> arguments]
         missing == Missing(name, arguments)
     IN IF client_is_None
          THEN Answer(r, TextContent([error |-> <<"Client not initialized.">>]))
        ELSE IF name \notin DispatchedTools
          THEN Answer(r, TextContent([error |-> <<"Unknown tool: ", name>>]))
        ELSE IF missing # <<>>
          THEN Answer(r, TextContent([error |-> Message(KeyError(missing[1]))]))
        ELSE IF name = "add_word_by_schedule_name"
          THEN /\ schedule_begin(arguments.schedule_name, arguments.word)
               /\ Await(r)
        ELSE IF name = "add_word_by_list_name"
          THEN /\ list_begin(arguments.list_name, arguments.word)
               /\ Await(r)
        ELSE /\ tool_begin(name, arguments)
             /\ Await(r)
  /\ UNCHANGED <<env, facade, server, conn>>

\* call_tool after the client method has returned or raised
tool_return ==
  /\ facade = "tool"
  /\ server = "running"
  /\ fpc = "awaiting"
  /\ pc = "done"
  /\ Reply(IF result.t = "return" THEN TextContent(result.value)
           ELSE TextContent([error |-> Message(result)]))
  /\ UNCHANGED <<env, facade, server, conn>>

\* main() leaves `async with RenshuuClient()`: server.run returned, raised or
\* was cancelled; a handler still awaiting is cancelled with the session
tool_session_end(how) ==
  /\ facade = "tool"
  /\ server = "running"
  /\ server' = "ended"
  /\ conn' = Close(conn)
  /\ IF fpc = "awaiting"
       THEN /\ fpc' = "cancelled"
            /\ pc' = "done"
            /\ result' = [t |-> "raise", exc |-> "CancelledError"]
       ELSE UNCHANGED <<fpc, pc, result>>
  /\ UNCHANGED <<env, facade, req, response, log>>
  /\ UNCHANGED <<op, container_name, word, calls, catalog, scanned, matching,
                 words, attach_reply, outcomes>>

----------------------------------------------------------------------------
(* The HTTP server *)

\* body.get(key): the value, or None (modelled as <<>>, falsy like "")
BodyGet(body, key) == IF key \in DOMAIN body THEN body[key] ELSE <<>>

Falsy_never(v) == FALSE

\* `not v` for a str | None
Falsy(v) == v = <<>>

\* The except-clause of the add-by-name handlers
Status500(r) == JSONResponse([ok |-> FALSE, error |-> Message(r)], 500)

\* One add-by-name handler up to its first await: `route` is the path,
\* `name_key` the field holding the container name, `begin` the operation
add_by_name_handler(route, name_key, missing_text, body) ==
  /\ facade = "http"
  /\ server = "running"
  /\ fpc = "idle"
  /\ Len(log) < MaxRequests
  /\ LET r == [t |-> "http", route |-> route, body |-> body]
         container == IF body.t = "object" THEN BodyGet(body.value, name_key)
                      ELSE <<>>
         w == IF body.t = "object" THEN BodyGet(body.value, "word") ELSE <<>>
     IN IF body.t = "malformed"
          THEN /\ Answer(r, Status500([t |-> "raise", exc |-> "JSONDecodeError"]))
               /\ UNCHANGED conn
        ELSE IF body.t = "array"
          THEN /\ Answer(r, Status500([t |-> "raise", exc |-> "AttributeError"]))
               /\ UNCHANGED conn
        ELSE IF Falsy(container) \/ Falsy(w)
          THEN /\ Answer(r, JSONResponse([ok |-> FALSE,
                                          error |-> <<missing_text>>], 400))
               /\ UNCHANGED conn
        ELSE IF InitRaises(API_KEY)
          THEN /\ Answer(r, Status500(ValueErrorNoKey))
               /\ UNCHANGED conn
        ELSE /\ conn' = Open(conn)
             /\ IF name_key = "schedule_name"
                  THEN schedule_begin(container, w)
                  ELSE list_begin(container, w)
             /\ Await(r)
  /\ UNCHANGED <<env, facade, server>>

add_word_by_schedule_name_handler(body) ==
  add_by_name_handler("add-word-by-name", "schedule_name",
                      "Missing schedule_name or word", body)

add_word_by_list_name_handler(body) ==
  add_by_name_handler("add-word-to-list-by-name", "list_name",
                      "Missing list_name or word", body)

\* (mutant) the handler takes a result without "error" for the failure
add_by_name_return_inverted ==
  /\ facade = "http"
  /\ server = "running"
  /\ fpc = "awaiting"
  /\ pc = "done"
  /\ op \in ByNameTools
  /\ conn' = Close(conn)
  /\ Reply(IF result.t = "raise" THEN Status500(result)
           ELSE IF "error" \notin DOMAIN result.value
             THEN JSONResponse([ok |-> FALSE, status |-> 400,
                                data |-> result.value], 400)
           ELSE JSONResponse([ok |-> TRUE, status |-> 200,
                              data |-> result.value], 200))
  /\ UNCHANGED <<env, facade, server>>

\* The handlers after the operation has returned or raised: the connection
\* is closed by `async with`, the result or the exception becomes a response
add_by_name_return ==
  /\ facade = "http"
  /\ server = "running"
  /\ fpc = "awaiting"
  /\ pc = "done"
  /\ op \in ByNameTools
  /\ conn' = Close(conn)
  /\ Reply(IF result.t = "raise" THEN Status500(result)
           ELSE IF "error" \in DOMAIN result.value
             THEN JSONResponse([ok |-> FALSE, status |-> 400,
                                data |-> result.value], 400)
           ELSE JSONResponse([ok |-> TRUE, status |-> 200,
                              data |-> result.value], 200))
  /\ UNCHANGED <<env, facade, server>>

\* proxy_request up to the await of the forwarded call
proxy_request(method, path) ==
  /\ facade = "http"
  /\ server = "running"
  /\ fpc = "idle"
  /\ Len(log) < MaxRequests
  /\ LET r == [t |-> "http", route |-> "proxy", method |-> method,
               path |-> path]
     IN IF method \in {"GET", "POST", "PUT", "DELETE"}
          THEN /\ conn' = Open(conn)
               /\ pc = "idle"
               /\ op' = "proxy_request"
               /\ calls' = <<Call(method, path, EmptyDict)>>
               /\ pc' = "proxy_request"
               /\ UNCHANGED <<container_name, word, catalog, scanned, matching,
                              words, attach_reply, outcomes, result>>
               /\ Await(r)
          ELSE /\ conn' = Close(Open(conn))
               /\ Answer(r, JSONResponse([ok |-> FALSE,
                                          error |-> <<"Method not allowed">>], 405))
  /\ UNCHANGED <<env, facade, server>>

\* The envelope proxy_request builds from a response of the remote service
Payload(reply) ==
  IF reply.json
    THEN [ok |-> reply.status < 400, status |-> reply.status,
          data |-> reply.body]
    ELSE [ok |-> reply.status < 400, status |-> reply.status,
          raw |-> reply.text]

\* The forwarded call is answered, or its await raises: nothing in
\* proxy_request catches that exception
proxy_reply(reply) ==
  /\ facade = "http"
  /\ server = "running"
  /\ fpc = "awaiting"
  /\ pc = "proxy_request"
  /\ conn' = Close(conn)
  /\ LET resp == IF reply.t = "timeout"
                   THEN Escaped([t |-> "raise", exc |-> "TimeoutException"])
                   ELSE JSONResponse(Payload(reply), reply.status)
     IN /\ response' = resp
        /\ log' = Append(log, Summary(req, resp))
  /\ fpc' = "answered"
  /\ pc' = "done"
  /\ UNCHANGED <<op, container_name, word, calls, catalog, scanned, matching,
                 words, attach_reply, outcomes, result>>
  /\ UNCHANGED <<env, facade, server, req>>

\* The module is loaded (API_KEY read, a warning printed when it is None)
\* and uvicorn.run starts serving
http_main ==
  /\ facade = "http"
  /\ server = "off"
  /\ server' = "running"
  /\ response' = IF API_KEY = "" THEN [t |-> "warning"] ELSE NoResponse
  /\ UNCHANGED <<env, facade, conn, fpc, req, log>>
  /\ UNCHANGED cvars

\* uvicorn.run returns
http_stop ==
  /\ facade = "http"
  /\ server = "running"
  /\ fpc = "idle"
  /\ server' = "ended"
  /\ UNCHANGED <<env, facade, conn, fpc, req, response, log>>
  /\ UNCHANGED cvars

----------------------------------------------------------------------------
(* The servers as a state machine *)

ToolNames == DispatchedTools \cup {"no_such_tool"}

\* A value for each argument of a tool
SampleArg(k) ==
  CASE k \in {"schedule_name", "list_name"} -> <<"A">>
    [] k = "word" -> <<"E", "a", "t">>
    [] k = "query" -> <<"q">>
    [] k = "kanji" -> <<"K">>
    [] k = "termtype" -> <<"v">>
    [] OTHER -> <<"7">>

Keys(name) ==
  IF name \in DispatchedTools
    THEN {Required(name)[i] : i \in DOMAIN Required(name)}
    ELSE {}

\* The argument objects tried for a tool: every subset of its required
\* arguments, and for the add-by-name tools also an empty container name
ArgChoices(name) ==
  {[k \in K |-> SampleArg(k)] : K \in SUBSET Keys(name)}
    \cup (IF name \in ByNameTools
            THEN {[k \in Keys(name) |->
                     IF k = "word" THEN SampleArg(k) ELSE <<>>]}
            ELSE {})

\* Request bodies of the add-by-name endpoints
HttpBodies(name_key) ==
  {[t |-> "malformed"], [t |-> "array"]}
    \cup {[t |-> "object", value |-> [k \in K |-> SampleArg(k)]] :
            K \in SUBSET {name_key, "word"}}
    \cup {[t |-> "object", value |-> [k \in {name_key, "word"} |-> <<>>]]}

ProxyMethods == {"GET", "PUT", "HEAD"}
ProxyPaths == {<<"/profile">>}

\* Answers of the remote service seen through a server
FEntries(kind) ==
  {<<>>,
   <<[k \in {IdKey(kind), NameKey(kind)} |->
        IF k = IdKey(kind) THEN JInt(1) ELSE JStr(<<"a">>)]>>,
   <<[k \in {IdKey(kind), NameKey(kind)} |->
        IF k = IdKey(kind) THEN JInt(1) ELSE JNull]>>}
FScheduleReplies == Replies({[schedules |-> e] : e \in FEntries("schedule")})
FListReplies == Replies({Nest(e, <<<<Len(e)>>>>) : e \in FEntries("list")})
FSearchReplies ==
  Replies({[words |-> <<>>],
           [words |-> <<[id |-> JInt(41), kanji_full |-> JStr(<<"K">>)]>>]})
ToolReplies == Replies({[data |-> "OK"]})

\* A step of the client while a server awaits it
Serving == server = "running" /\ fpc = "awaiting" /\ UNCHANGED fvars

FacadeInit ==
  /\ env \in Envs
  /\ facade \in {"tool", "http"}
  /\ server = "off"
  /\ conn = NoConn
  /\ fpc = "idle"
  /\ req = NoRequest
  /\ response = NoResponse
  /\ log = <<>>
  /\ ClientIdle

FacadeNext ==
  \/ tool_main
  \/ \E name \in ToolNames : \E a \in ArgChoices(name) : call_tool(name, a)
  \/ Serving /\ pc = "get_schedules"
       /\ \E reply \in FScheduleReplies : schedule_resolve(reply)
  \/ Serving /\ pc = "search_words"
       /\ \E reply \in FSearchReplies : schedule_search(reply)
  \/ Serving /\ pc = "add_word_to_schedule"
       /\ \E reply \in AttachReplies : schedule_attach(reply)
  \/ Serving /\ pc = "get_lists"
       /\ \E reply \in FListReplies : list_resolve(reply)
  \/ Serving /\ pc = "search_words"
       /\ \E reply \in FSearchReplies : list_search(reply)
  \/ Serving /\ pc = "add_word_to_list"
       /\ \E reply \in AttachReplies : list_attach(reply)
  \/ Serving /\ pc = "tool_request"
       /\ \E reply \in ToolReplies : tool_reply(reply)
  \/ pc = "done" /\ tool_return
  \/ handler_done
  \/ \E how \in {"return", "exception", "cancelled"} : tool_session_end(how)
  \/ http_main
  \/ \E body \in HttpBodies("schedule_name") :
       add_word_by_schedule_name_handler(body)
  \/ \E body \in HttpBodies("list_name") : add_word_by_list_name_handler(body)
  \/ pc = "done" /\ add_by_name_return
  \/ \E m \in ProxyMethods, path \in ProxyPaths : proxy_request(m, path)
  \/ pc = "proxy_request" /\ \E reply \in ToolReplies : proxy_reply(reply)
  \/ http_stop

FacadeSpec == FacadeInit /\ [][FacadeNext]_vars

----------------------------------------------------------------------------
(* Vocabulary of the properties *)

Running == op # "none"
IsSchedule == op = "add_word_by_schedule_name"
OpKind == IF IsSchedule THEN "schedule" ELSE "list"

\* The catalog fetch of the running operation
CatalogFetch == IF IsSchedule THEN get_schedules ELSE get_lists

\* The containers of the fetched catalog in the order the operation scans them
CatalogEntries == scanned

\* Entry e is taken as named `target`: its display name, "" when it has
\* none, equals the target once both are lowercased
NamedLike(e, target) ==
  LET n == Get(e, NameKey(OpKind), JStr(<<>>))
  IN n.t = "str" /\ Lower(n.v) = Lower(target)

\* The resolution left no usable matching container (`not matching`)
Unresolved ==
  matching.t = "none" \/ (matching.t = "found" /\ DOMAIN matching.entry = {})

NoEntryMatches ==
  \A i \in DOMAIN CatalogEntries : ~NamedLike(CatalogEntries[i], container_name)

IsSearch(c) == c.method = "GET" /\ c.endpoint = <<"/word/search">>
IsAttach(c) == c.method # "GET"
AttachIssued == \E i \in DOMAIN calls : IsAttach(calls[i])
SearchIssued == \E i \in DOMAIN calls : IsSearch(calls[i])

Returned == pc = "done" /\ result.t = "return"
Raised == pc = "done" /\ result.t = "raise"
ReturnedError == Returned /\ "error" \in DOMAIN result.value
ReturnedSuccess == Returned /\ "success" \in DOMAIN result.value

----------------------------------------------------------------------------
(* C1: in an invocation of either add-by-name operation where no catalog   *)
(* entry matches the container name (the resolution ends with no matching  *)
(* container), the only remote call issued is the catalog fetch: neither   *)
(* the word search nor the attach call is issued.                          *)
C1_NoMatchOnlyFetch ==
  (Running /\ (Unresolved \/ NoEntryMatches))
    => /\ calls = <<CatalogFetch>>
       /\ ~SearchIssued
       /\ ~AttachIssued

\* a list invocation that ended "not found" over a catalog of two lists
C1_Witness ==
  /\ op = "add_word_by_list_name"
  /\ ReturnedError
  /\ Len(CatalogEntries) = 2
  /\ NoEntryMatches
  /\ Len(calls) = 1

(* C2: when the container matched but the word search gave no result, the  *)
(* attach call is never issued: an attach call is in flight or done only    *)
(* with a non-empty `words`.                                                *)
C2_NoWordNoAttach ==
  (Running /\ words = <<>>) => ~AttachIssued

\* the container matched, the search was issued and returned no word
C2_Witness ==
  /\ ReturnedError
  /\ matching.t = "found"
  /\ Len(calls) = 2
  /\ IsSearch(calls[2])
  /\ result.value = WordNotFound(word)

(* C3: in one invocation at most one mutating call is issued, it is the    *)
(* attach call and it is the last call; no call is issued twice, so a      *)
(* failed call (status, timeout, unparseable body) is never re-issued.     *)
C3_AttachOnceNoRetry ==
  /\ Cardinality({i \in DOMAIN calls : IsAttach(calls[i])}) <= 1
  /\ \A i \in DOMAIN calls : IsAttach(calls[i]) => i = Len(calls)
  /\ \A i, j \in DOMAIN calls : calls[i] = calls[j] => i = j
  /\ Len(calls) <= 3
  /\ \A i \in DOMAIN outcomes : outcomes[i].outcome = "raise" => i = Len(calls)

\* the attach call failed and the operation ended with the three calls
C3_Witness ==
  /\ Raised
  /\ Len(calls) = 3
  /\ attach_reply # NoReply
  /\ attach_reply.t = "timeout"

(* C4: an attach call is a PUT on /word/<id of the first search result>    *)
(* with exactly one parameter, sched_id for a schedule and list_id for a   *)
(* list, whose value is the id of a catalog entry named like the target.   *)
C4_AttachShape ==
  \A i \in DOMAIN calls :
    IsAttach(calls[i]) =>
      /\ calls[i].method = "PUT"
      /\ calls[i].endpoint = <<"/word/">> \o StrOfGet(words[1], "id").v
      /\ DOMAIN calls[i].params = {IF IsSchedule THEN "sched_id" ELSE "list_id"}
      /\ \E j \in DOMAIN CatalogEntries :
           /\ NamedLike(CatalogEntries[j], container_name)
           /\ \A k \in DOMAIN calls[i].params :
                calls[i].params[k] =
                  StrOfGet(CatalogEntries[j], IdKey(OpKind))

\* the attach call is in flight for the second of two lists and the first
\* of two words
C4_Witness ==
  /\ pc = "add_word_to_list"
  /\ Len(CatalogEntries) = 2
  /\ ~NamedLike(CatalogEntries[1], container_name)
  /\ Len(words) = 2
  /\ AttachIssued


\* The catalog fetch / the word search / the attach call was answered and
\* _request returned its body
CatalogAnswered == Len(outcomes) >= 1 /\ outcomes[1].outcome = "return"
SearchAnswered == Len(outcomes) >= 2 /\ outcomes[2].outcome = "return"
AttachAnswered == Len(outcomes) >= 3 /\ outcomes[3].outcome = "return"

\* Entry e has a display name, and it differs from `target` by letter case
\* at most
DisplayNameLike(e, target) ==
  /\ NameKey(OpKind) \in DOMAIN e
  /\ e[NameKey(OpKind)].t = "str"
  /\ Lower(e[NameKey(OpKind)].v) = Lower(target)

SomeDisplayNameLike ==
  \E i \in DOMAIN CatalogEntries :
    DisplayNameLike(CatalogEntries[i], container_name)

\* The message of a container-not-found result for the running operation
NotFoundMessage ==
  <<IF IsSchedule THEN "Schedule '" ELSE "List '">>
    \o container_name \o <<"' not found">>

\* The field that lists the available names in a not-found result
AvailableKey == IF IsSchedule THEN "available_schedules" ELSE "available_lists"

(* C5: resolution is case-insensitive for both kinds: once the catalog is  *)
(* fetched, if some entry's display name differs from the target only by   *)
(* letter case the container is resolved; and a resolved entry that has a  *)
(* display name has the target's name once both are lowercased.            *)
C5_CaseInsensitive ==
  /\ (Running /\ CatalogAnswered /\ SomeDisplayNameLike)
       => matching.t = "found"
  /\ (matching.t = "found" /\ NameKey(OpKind) \in DOMAIN matching.entry)
       => DisplayNameLike(matching.entry, container_name)

(* C6: when no catalog entry has the target's name, the operation returns  *)
(* an error result whose message names the requested container and whose   *)
(* available-names field holds the display name of every catalog entry,    *)
(* once per entry and in traversal order (empty for an empty catalog).     *)
C6_NotFoundListsNames ==
  (Running /\ CatalogAnswered /\ ~SomeDisplayNameLike)
    => /\ ReturnedError
       /\ result.value.error = NotFoundMessage
       /\ DOMAIN result.value = {"error", AvailableKey}
       /\ result.value[AvailableKey] =
            [i \in DOMAIN CatalogEntries |->
               Get(CatalogEntries[i], NameKey(OpKind), JNull)]


\* C6 with every display name present and a string: the not-found result
C6_NotFoundWhenNamesPresent ==
  (\A i \in DOMAIN CatalogEntries :
      /\ NameKey(OpKind) \in DOMAIN CatalogEntries[i]
      /\ CatalogEntries[i][NameKey(OpKind)].t = "str")
    => C6_NotFoundListsNames

\* The search calls in the call log
SearchCalls == {i \in DOMAIN calls : IsSearch(calls[i])}

(* C7: the operation searches once, for page 1 of the caller's word, as    *)
(* its second call; a non-empty result makes the attach call address the   *)
(* first element of the result; an empty result ends the operation after   *)
(* that one search with the word-not-found error, whose message carries    *)
(* the caller's word exactly as given.                                     *)
C7_FirstResultPageOne ==
  /\ \A i \in SearchCalls :
       /\ i = 2
       /\ calls[i] = Call("GET", <<"/word/search">>, [value |-> word, pg |-> 1])
  /\ AttachIssued
       => /\ words # <<>>
          /\ calls[3].endpoint = <<"/word/">> \o StrOfGet(words[1], "id").v
  /\ (Running /\ SearchAnswered /\ words = <<>>)
       => /\ ReturnedError
          /\ result.value =
               [error |-> <<"Word '">> \o word
                             \o <<"' not found in dictionary">>]
          /\ Len(calls) = 2

\* An attach issued for the first of two differing search results
C7_Witness ==
  /\ AttachIssued
  /\ Len(words) = 2
  /\ StrOfGet(words[1], "id") # StrOfGet(words[2], "id")

\* An empty search result reported as word not found
C7_WitnessEmpty ==
  /\ Running /\ SearchAnswered /\ words = <<>> /\ ReturnedError


\* The container object of the result ("schedule" or "list")
ContainerKey == IF IsSchedule THEN "schedule" ELSE "list"
ResultContainer == result.value[ContainerKey]

\* What a success result holds apart from the two ids
SuccessCarries ==
  /\ ReturnedSuccess
  /\ DOMAIN result.value = {"success", ContainerKey, "word", "api_response"}
  /\ result.value.success = TRUE
  /\ DOMAIN ResultContainer = {"id", "name"}
  /\ ResultContainer.name = Get(matching.entry, NameKey(OpKind), JNull)
  /\ DOMAIN result.value.word = {"id", "kanji", "hiragana", "definitions"}
  /\ result.value.word.kanji = Get(words[1], "kanji_full", JStr(<<>>))
  /\ result.value.word.hiragana = Get(words[1], "hiragana_full", JStr(<<>>))
  /\ result.value.word.definitions = Get(words[1], "def", <<>>)
  /\ result.value.api_response = attach_reply.body

(* C8 as stated: when the container resolved, the search was non-empty and *)
(* the attach call returned, the operation returns a success result whose  *)
(* container id and term id EQUAL the ids of the matched entry and of the  *)
(* first search result (id 1 and id 42 stay the numbers 1 and 42).         *)
C8_SuccessEchoesIds ==
  (Running /\ AttachAnswered)
    => /\ SuccessCarries
       /\ ResultContainer.id = Get(matching.entry, IdKey(OpKind), JNull)
       /\ result.value.word.id = Get(words[1], "id", JNull)

(* C8: when the container resolved, the search was non-empty and the       *)
(* attach call returned, the operation returns a success result that holds *)
(* the matched entry's name, the first search result's display fields and  *)
(* definitions (with "" / [] for an absent field), the attach response     *)
(* unchanged, and as container id and term id the STRING forms of the      *)
(* entry's id and of the first result's id: id 1 is returned as "1", a     *)
(* missing id as "None".                                                   *)
C8_SuccessShape ==
  (Running /\ AttachAnswered)
    => /\ SuccessCarries
       /\ ResultContainer.id.t = "str"
       /\ result.value.word.id.t = "str"
       /\ Get(matching.entry, IdKey(OpKind), JNull).t = "int"
            => ResultContainer.id.v =
                 IntToStr(Get(matching.entry, IdKey(OpKind), JNull).v)
       /\ Get(words[1], "id", JNull).t = "int"
            => result.value.word.id.v = IntToStr(Get(words[1], "id", JNull).v)
       /\ Get(matching.entry, IdKey(OpKind), JNull) = JNull
            => ResultContainer.id.v = <<"N", "o", "n", "e">>
       /\ Get(words[1], "id", JNull) = JNull
            => result.value.word.id.v = <<"N", "o", "n", "e">>

\* A success for target "A" resolved to the entry named "a" with id 1 and a
\* first search result with id 41
C8_Witness ==
  /\ ReturnedSuccess
  /\ container_name = <<"A">>
  /\ Get(matching.entry, NameKey(OpKind), JNull) = JStr(<<"a">>)
  /\ Get(matching.entry, IdKey(OpKind), JNull) = JInt(1)
  /\ Get(words[1], "id", JNull) = JInt(41)
  /\ ResultContainer.id = JStr(<<"1">>)
  /\ result.value.word.id = JStr(<<"4", "1">>)


\* The i-th call of the invocation was answered with an HTTP response whose
\* status is outside 200..299
ErrorStatusAt(i) ==
  /\ outcomes[i].reply.t = "response"
  /\ ~(outcomes[i].reply.status >= 200 /\ outcomes[i].reply.status <= 299)

UnparseableAttach ==
  /\ Running
  /\ Len(outcomes) = 3
  /\ outcomes[3].reply.t = "response"
  /\ ~ErrorStatusAt(3)
  /\ ~outcomes[3].reply.json

(* C10: when the answer to the attach call is not parseable as JSON, the   *)
(* add-by-name operation still returns a result, and the raw response text *)
(* is carried in a field of that result.                                   *)
C10_UnparseableAttachCarried ==
  UnparseableAttach
    => /\ Returned
       /\ \E k \in DOMAIN result.value : result.value[k] = attach_reply.text

\* What the code does with an unparseable attach answer: response.json()
\* raises out of _request and out of the operation, after all three calls
C10_UnparseableAttachRaises ==
  UnparseableAttach
    => /\ Raised
       /\ result = [t |-> "raise", exc |-> "JSONDecodeError"]
       /\ Len(calls) = 3

----------------------------------------------------------------------------
(* Properties of the servers *)

\* An add-by-name handler of the HTTP server has its response, after the
\* operation returned or raised
ByNameAnswered ==
  /\ facade = "http"
  /\ fpc = "answered"
  /\ op \in ByNameTools

\* The operation raised the exception of a non-success status
RaisedStatus == Raised /\ result.exc = "HTTPStatusError"

(* C11: on the HTTP server's add-by-name endpoints a not-found container   *)
(* or word yields ok=false with status 400; a remote call that failed with *)
(* a non-success status yields that status; any other exception yields     *)
(* 500; and ok=true with 200 is the answer exactly when the attach call    *)
(* completed.                                                              *)
C11_StatusMapping ==
  ByNameAnswered
    => /\ ReturnedError
         => response.status_code = 400 /\ response.body.ok = FALSE
       /\ RaisedStatus => response.status_code = result.status
       /\ (Raised /\ ~RaisedStatus) => response.status_code = 500
       /\ (response.status_code = 200 /\ response.body.ok = TRUE)
            <=> AttachAnswered

\* What the handlers do: every exception, that of a non-success status
\* included, becomes a 500 whose error text is str(exc)
C11_EveryRaiseIs500 ==
  ByNameAnswered
    => /\ ReturnedError
         => response.status_code = 400 /\ response.body.ok = FALSE
       /\ Raised
            => /\ response.status_code = 500
               /\ response.body = [ok |-> FALSE, error |-> Message(result)]
       /\ (response.status_code = 200 /\ response.body.ok = TRUE)
            <=> AttachAnswered

\* The request being served, or served last, is for an add-by-name
\* operation and lacks a required field: a tool call without one of the two
\* arguments, an HTTP body without one of the two fields or with an empty one
LacksField ==
  \/ /\ req.t = "tool"
     /\ req.name \in ByNameTools
     /\ \/ "word" \notin DOMAIN req.arguments
        \/ /\ req.name = "add_word_by_schedule_name"
           /\ "schedule_name" \notin DOMAIN req.arguments
        \/ /\ req.name = "add_word_by_list_name"
           /\ "list_name" \notin DOMAIN req.arguments
  \/ /\ req.t = "http"
     /\ req.route \in {"add-word-by-name", "add-word-to-list-by-name"}
     /\ req.body.t = "object"
     /\ \E k \in {"word", IF req.route = "add-word-by-name"
                            THEN "schedule_name" ELSE "list_name"} :
          \/ k \notin DOMAIN req.body.value
          \/ req.body.value[k] = <<>>

\* The caller has an error envelope
ErrorEnvelope ==
  \/ /\ response.t = "content"
     /\ "error" \in DOMAIN response.data
  \/ /\ response.t = "http"
     /\ response.body.ok = FALSE
     /\ "error" \in DOMAIN response.body

(* C12: an add-by-name request that lacks a required field is answered     *)
(* with an error envelope, and no remote call is issued for it: the call   *)
(* log is empty and no connection is opened on its behalf.                 *)
C12_MissingFieldNoCall ==
  LacksField
    => /\ ErrorEnvelope
       /\ calls = <<>>
       /\ op = "none"
       /\ fpc = "idle"
       /\ req.t = "http" => conn.opened = 0 \/ ~conn.open

\* A tool call without `word`, and an HTTP request with an empty
\* schedule_name, both answered
C12_Witness ==
  /\ LacksField
  /\ req.t = "tool"
  /\ "word" \notin DOMAIN req.arguments
  /\ response = TextContent([error |-> <<"KeyError", "word">>])

C12_WitnessHttp ==
  /\ LacksField
  /\ req.t = "http"
  /\ "schedule_name" \in DOMAIN req.body.value
  /\ response.status_code = 400

\* The tool call being served, or served last, names no operation
UnknownTool == req.t = "tool" /\ req.name \notin DispatchedTools

\* The tool call being served names a one-call operation and carries all of
\* its arguments
KnownToolCall ==
  /\ req.t = "tool"
  /\ req.name \in DispatchedTools \ ByNameTools
  /\ \A i \in DOMAIN Required(req.name) :
       Required(req.name)[i] \in DOMAIN req.arguments

(* C13: a tool call with an unknown name is answered                       *)
(* {error: "Unknown tool: <name>"} with the name echoed and without any    *)
(* remote call; the session goes on, so that a next call can be made and a *)
(* call with a known name, also one that follows an unknown one, is passed *)
(* to its operation, which issues its remote call.                         *)
C13_UnknownToolAnswered ==
  /\ UnknownTool
       => /\ response = TextContent([error |-> <<"Unknown tool: ", req.name>>])
          /\ calls = <<>>
          /\ fpc = "idle"
          /\ (server = "running" /\ Len(log) < MaxRequests)
               => ENABLED call_tool("get_profile", EmptyDict)
  /\ (KnownToolCall /\ fpc \in {"awaiting", "answered"})
       => /\ Len(calls) = 1
          /\ calls[1].method \in {"GET", "PUT", "DELETE"}
          /\ fpc = "answered"
               => ~(response.data = [error |-> <<"Unknown tool: ", req.name>>])

\* An unknown tool name was answered with an error, and the next call, of
\* a known tool, was answered with the remote service's data
C13_Witness ==
  /\ Len(log) = 2
  /\ log[1] = [asked |-> "unknown tool", answer |-> "error"]
  /\ log[2] = [asked |-> "known tool", answer |-> "ok"]
  /\ KnownToolCall
  /\ response = TextContent([data |-> "OK"])

\* A request has been served to its end
Served == req.t # "none" /\ fpc \in {"idle", "answered"}

\* The caller has a structured envelope: the text content of a tool call
\* or a JSON response of the HTTP server
Envelope == response.t \in {"content", "http"}

(* C14: whatever the remote call does (success, non-success status,        *)
(* timeout, network failure, unparseable body), every request served by a  *)
(* tool call, an HTTP add-by-name endpoint or the HTTP passthrough ends    *)
(* with a structured envelope for the caller: no exception leaves the      *)
(* handler.                                                                *)
C14_AlwaysEnvelope == Served => Envelope

\* The same for the tool calls and the add-by-name endpoints alone
C14_EnvelopeOutsideProxy ==
  (Served /\ ~(req.t = "http" /\ req.route = "proxy")) => Envelope

\* The passthrough with an answer of the remote service, whatever its
\* status and body: the envelope carries the status and the body or text
C14_ProxyEnvelopeOnAnswer ==
  (Served /\ req.t = "http" /\ req.route = "proxy" /\ Len(calls) = 1
     /\ response.t # "escaped")
    => /\ Envelope
       /\ response.body.status = response.status_code
       /\ response.body.ok = (response.status_code < 400)
       /\ ("data" \in DOMAIN response.body) # ("raw" \in DOMAIN response.body)

\* The client is in the middle of an invocation: a remote call is awaited
\* or about to be issued
ClientBusy == pc \notin {"idle", "done"}

\* The connection is open while the server serves, opened once, and closed
\* when the server run is over; nothing is in flight without a connection
ConnectionScopedToRun ==
  /\ conn.opened <= 1
  /\ conn.closed <= conn.opened
  /\ conn.open = (conn.opened = 1 /\ conn.closed = 0)
  /\ server = "ended" => ~conn.open
  /\ ~conn.open => ~ClientBusy

(* C15: the connection is opened once per server run, not once per         *)
(* request; it is closed on every way the run can end; and once it is      *)
(* closed no remote call is issued on it.                                  *)
C15_OpenedOncePerRun ==
  /\ ConnectionScopedToRun
  /\ facade = "tool" => (server = "running" <=> conn.open)

\* The same for the tool-call server alone
C15_ToolSession ==
  facade = "tool"
    => /\ ConnectionScopedToRun
       /\ server = "running" <=> conn.open

\* The HTTP server: one connection per request that reaches the client,
\* closed when the handler is done, none open between requests
C15_HttpPerRequest ==
  facade = "http"
    => /\ conn.opened <= Len(log) + 1
       /\ conn.closed <= conn.opened
       /\ conn.open = (fpc = "awaiting")
       /\ ~conn.open => ~ClientBusy

\* The HTTP server has opened a second connection in one run
C15_SecondConnection == facade = "http" /\ conn.opened = 2

\* Neither credential is configured
NoCredential == env.RENSHUU_WRITE_KEY = "" /\ env.RENSHUU_READ_KEY = ""

\* A well-formed add-by-name request of the HTTP server has been served
ByNameServed ==
  /\ Served
  /\ req.t = "http"
  /\ req.route # "proxy"
  /\ req.body.t = "object"
  /\ ~LacksField

\* Without a credential the HTTP server answers an add-by-name request with
\* the credential error, and issues no remote call for it
DefersToFirstUse ==
  (NoCredential /\ ByNameServed)
    => /\ response.status_code = 500
       /\ response.body = [ok |-> FALSE, error |-> Message(ValueErrorNoKey)]
       /\ calls = <<>>

(* C16: with neither credential configured, the startup of either server   *)
(* does not fail: the server gets to run, and the missing credential is    *)
(* reported only to the first request that needs the remote service.       *)
C16_StartsWithoutCredential ==
  /\ NoCredential => server # "failed"
  /\ DefersToFirstUse

\* The HTTP server alone starts without a credential and defers the error
C16_HttpStarts ==
  /\ (NoCredential /\ facade = "http") => server # "failed"
  /\ DefersToFirstUse

\* The tool-call server fails at startup exactly when no credential is set
C16_ToolFailsAtStartup ==
  (facade = "tool" /\ server # "off")
    => (server = "failed" <=> NoCredential)

\* An add-by-name operation is running or has just ended
ByNameRunning == op \in ByNameTools

(* C17: in every invocation of an add-by-name operation, a repeated one    *)
(* included, the remote calls issued so far are a prefix of catalog fetch, *)
(* word search, attach; the invocation starts with the catalog fetch and   *)
(* holds nothing of an earlier invocation before that fetch is answered;   *)
(* a call is issued only after every earlier call has returned, so at most *)
(* one call is in flight.                                                  *)
C17_SequentialFresh ==
  /\ ByNameRunning
       => /\ Len(calls) \in 1..3
          /\ calls[1] = CatalogFetch
          /\ Len(calls) >= 2 => IsSearch(calls[2])
          /\ Len(calls) >= 3 => IsAttach(calls[3])
          /\ Len(outcomes) <= Len(calls)
          /\ Len(calls) <= Len(outcomes) + 1
          /\ \A i \in DOMAIN outcomes :
               i < Len(calls) => outcomes[i].outcome = "return"
          /\ outcomes = <<>>
               => /\ catalog = EmptyDict
                  /\ scanned = <<>>
                  /\ matching = NoMatch
                  /\ words = <<>>
  /\ op = "none"
       => /\ calls = <<>>
          /\ outcomes = <<>>
          /\ catalog = EmptyDict
          /\ scanned = <<>>
          /\ matching = NoMatch
          /\ words = <<>>

\* A second invocation with the same arguments, after a first one that
\* succeeded, has fetched the catalog and searched again and awaits its
\* attach call
C17_Witness ==
  /\ facade = "http"
  /\ log = <<[asked |-> "add-word-by-name", answer |-> "ok"]>>
  /\ req.route = "add-word-by-name"
  /\ fpc = "awaiting"
  /\ Len(calls) = 3
  /\ Len(outcomes) = 2

\* The display name the comparison reads from entry e ("" when e has none)
NameOf(e) ==
  IF NameKey(OpKind) \in DOMAIN e THEN e[NameKey(OpKind)] ELSE JStr(<<>>)

\* Entry e matches the target name after lowercasing
MatchesTarget(e) ==
  /\ NameOf(e).t = "str"
  /\ Lower(NameOf(e).v) = Lower(container_name)

\* The positions of the catalog's traversal whose entry matches
MatchingPositions == {i \in DOMAIN scanned : MatchesTarget(scanned[i])}

\* The nesting of the list catalog: termtype groups, their subgroups, and
\* the lists of a subgroup
TermtypeGroups == Get(catalog, "termtype_groups", <<>>)
SubGroups(g) == Get(TermtypeGroups[g], "groups", <<>>)
ListsOf(g, s) == Get(SubGroups(g)[s], "lists", <<>>)

\* How many lists the catalog holds before subgroup s of termtype group g
ListsBefore(g, s) ==
  Sum([h \in 1..(g - 1) |->
         Sum([u \in DOMAIN SubGroups(h) |-> Len(ListsOf(h, u))])])
    + Sum([u \in 1..(s - 1) |-> Len(ListsOf(g, u))])

(* C18: the entry resolved is the first entry in catalog traversal order   *)
(* that matches the target name after lowercasing, also when several       *)
(* match; the attach call and the result carry that entry's id; and for    *)
(* lists the traversal is the flattening termtype group, subgroup, list    *)
(* with the order kept at every level.                                     *)
C18_FirstMatchWins ==
  /\ (ByNameRunning /\ matching.t = "found")
       => /\ \E i \in DOMAIN scanned :
               /\ MatchesTarget(scanned[i])
               /\ \A j \in 1..(i - 1) : ~MatchesTarget(scanned[j])
               /\ matching.entry = scanned[i]
               /\ AttachIssued
                    => \E k \in DOMAIN calls[3].params :
                         calls[3].params[k] =
                           Str(Get(scanned[i], IdKey(OpKind), JNull))
               /\ ReturnedSuccess
                    => result.value[IF IsSchedule THEN "schedule" ELSE "list"].id
                         = Str(Get(scanned[i], IdKey(OpKind), JNull))
  /\ (op = "add_word_by_schedule_name" /\ CatalogAnswered)
       => scanned = Get(catalog, "schedules", <<>>)
  /\ (op = "add_word_by_list_name" /\ CatalogAnswered)
       => /\ \A g \in DOMAIN TermtypeGroups :
               \A s \in DOMAIN SubGroups(g) :
                 LET before == ListsBefore(g, s)
                 IN  \A l \in DOMAIN ListsOf(g, s) :
                       /\ before + l \in DOMAIN scanned
                       /\ scanned[before + l] = ListsOf(g, s)[l]
          /\ Len(scanned) =
               Sum([g \in DOMAIN TermtypeGroups |->
                      Sum([s \in DOMAIN SubGroups(g) |-> Len(ListsOf(g, s))])])

\* Two lists of different termtype groups both match; the one of the first
\* group is resolved and the operation succeeded with it
C18_Witness ==
  /\ op = "add_word_by_list_name"
  /\ ReturnedSuccess
  /\ Len(TermtypeGroups) = 2
  /\ Len(scanned) = 2
  /\ MatchingPositions = {1, 2}
  /\ scanned[1] # scanned[2]
  /\ matching.entry = scanned[1]

\* Entry e has no display name: the key is absent or its value is null
NameMissing(e) ==
  \/ NameKey(OpKind) \notin DOMAIN e
  \/ e[NameKey(OpKind)].t = "null"

(* C19: a catalog entry without a display name (key absent or null) is     *)
(* never the match, whatever the target name, the empty one included; its  *)
(* presence in the catalog never makes the operation end with an           *)
(* exception; and an empty target name is matched only by an entry whose   *)
(* display name is present and empty.                                      *)
C19_MissingNameIsNonMatch ==
  ByNameRunning
    => /\ matching.t = "found" => ~NameMissing(matching.entry)
       /\ (CatalogAnswered /\ \E i \in DOMAIN scanned : NameMissing(scanned[i]))
            => ~(Raised /\ Len(calls) = 1)
       /\ (matching.t = "found" /\ container_name = <<>>)
            => /\ ~NameMissing(matching.entry)
               /\ matching.entry[NameKey(OpKind)] = JStr(<<>>)

\* The two ways the code departs from it: a null name ends the scan with
\* AttributeError, and an entry without the key is resolved for the empty
\* target name
C19_NullNameRaises ==
  /\ ByNameRunning
  /\ CatalogAnswered
  /\ \E i \in DOMAIN scanned :
       /\ NameKey(OpKind) \in DOMAIN scanned[i]
       /\ scanned[i][NameKey(OpKind)].t = "null"
  /\ result = [t |-> "raise", exc |-> "AttributeError"]

C19_AbsentNameMatchesEmpty ==
  /\ ByNameRunning
  /\ container_name = <<>>
  /\ matching.t = "found"
  /\ NameKey(OpKind) \notin DOMAIN matching.entry
  /\ AttachIssued

\* With every display name present and a string, the rest of C19 holds
C19_HoldsWhenNamesPresent ==
  (\A i \in DOMAIN scanned : ~NameMissing(scanned[i]))
    => C19_MissingNameIsNonMatch

\* The tool call was answered as an unknown tool
AnsweredUnknown ==
  /\ req.t = "tool"
  /\ fpc = "idle"
  /\ response = TextContent([error |-> <<"Unknown tool: ", req.name>>])

\* call_tool has passed the tool call to a client operation
Dispatched == req.t = "tool" /\ fpc \in {"awaiting", "answered"}

\* Every tool that list_tools returns is passed to a client operation and
\* never answered as unknown
C20_ListedAreDispatched ==
  /\ \A n \in ListedTools : n \in DispatchedTools
  /\ (req.t = "tool" /\ req.name \in ListedTools) => ~AnsweredUnknown

(* C20: the tool catalog and the dispatcher agree: a tool that list_tools  *)
(* returns is never answered as an unknown tool, and a tool call that      *)
(* call_tool passes to a client operation, add_word_by_list_name in        *)
(* particular, is for a tool that list_tools returns.                      *)
C20_CatalogMatchesDispatch ==
  /\ C20_ListedAreDispatched
  /\ Dispatched => req.name \in ListedTools

\* add_word_by_list_name, which list_tools does not return, is dispatched
C20_UnlistedDispatched ==
  /\ Dispatched
  /\ req.name = "add_word_by_list_name"
  /\ req.name \notin ListedTools
  /\ calls = <<get_lists>>

----------------------------------------------------------------------------
\* The request being served, or served last, asks for an add-by-name
\* operation: the tool call or the HTTP endpoint
ByNameRequest ==
  \/ req.t = "tool" /\ req.name \in ByNameTools
  \/ req.t = "http" /\ req.route # "proxy"

\* The caller is told the operation failed: ok=false in the HTTP body, an
\* "error" field in the payload of the tool call
ToldFailed ==
  \/ response.t = "http" /\ response.body.ok = FALSE
  \/ response.t = "content" /\ "error" \in DOMAIN response.data

\* The attach call was issued and _request raised on its answer: a timeout,
\* a status outside 200..299 or a body that is not JSON
AttachRaised ==
  /\ AttachIssued
  /\ Len(outcomes) = 3
  /\ outcomes[3].outcome = "raise"
  /\ \/ outcomes[3].reply.t = "timeout"
     \/ ErrorStatusAt(3)
     \/ ~outcomes[3].reply.json
  /\ Raised

(* C21 as stated: whenever an add-by-name request is answered with an      *)
(* error envelope, no attach call was issued during that request.          *)
C21_ErrorMeansNoAttach ==
  (Served /\ ByNameRequest /\ ToldFailed) => ~AttachIssued

(* C21: an add-by-name request is answered with an error envelope after    *)
(* its attach call was issued exactly when _request raised on the answer   *)
(* to that call (timeout, status outside 200..299, body that is not JSON), *)
(* and the envelope then carries that exception's text; a not-found result *)
(* is never given after the attach call was issued, and an attach call     *)
(* that returned is never answered with an error envelope.                 *)
C21_ErrorAfterAttachIsAttachFailure ==
  (Served /\ ByNameRequest)
    => /\ (ToldFailed /\ AttachIssued)
            => /\ AttachRaised
               /\ req.t = "http" => response = Status500(result)
               /\ req.t = "tool"
                    => response = TextContent([error |-> Message(result)])
       /\ AttachRaised => ToldFailed
       /\ ReturnedError => ~AttachIssued
       /\ AttachAnswered => ~ToldFailed

\* The attach call of an HTTP request was answered 500 and the caller got
\* ok=false; the attach call of a tool call timed out and the caller got an
\* error payload
C21_Witness ==
  /\ Served
  /\ ByNameRequest
  /\ req.t = "http"
  /\ AttachIssued
  /\ ErrorStatusAt(3)
  /\ outcomes[3].reply.status = 500
  /\ response.body.ok = FALSE

C21_WitnessTool ==
  /\ Served
  /\ ByNameRequest
  /\ req.t = "tool"
  /\ AttachIssued
  /\ Len(outcomes) = 3
  /\ outcomes[3].reply.t = "timeout"
  /\ "error" \in DOMAIN response.data

----------------------------------------------------------------------------
\* The tools that add a term to a container or remove it: verb, term type
\* and kind of container of each
TermTool(name, verb, termtype, kind) ==
  [name |-> name, verb |-> verb, termtype |-> termtype, kind |-> kind]

TermTools ==
  {TermTool("add_word_to_schedule", "add", "word", "schedule"),
   TermTool("add_word_to_list", "add", "word", "list"),
   TermTool("remove_word_from_schedule", "remove", "word", "schedule"),
   TermTool("remove_word_from_list", "remove", "word", "list"),
   TermTool("add_kanji_to_schedule", "add", "kanji", "schedule"),
   TermTool("add_kanji_to_list", "add", "kanji", "list"),
   TermTool("remove_kanji_from_schedule", "remove", "kanji", "schedule"),
   TermTool("remove_kanji_from_list", "remove", "kanji", "list"),
   TermTool("add_grammar_to_schedule", "add", "grammar", "schedule"),
   TermTool("add_grammar_to_list", "add", "grammar", "list"),
   TermTool("remove_grammar_from_schedule", "remove", "grammar", "schedule"),
   TermTool("remove_grammar_from_list", "remove", "grammar", "list")}

\* The method of a verb, the resource of a term type, and the arguments and
\* the query parameter that name the term and the container
VerbMethod(verb) == IF verb = "add" THEN "PUT" ELSE "DELETE"
Resource(termtype) ==
  CASE termtype = "word" -> "/word/"
    [] termtype = "kanji" -> "/kanji/"
    [] termtype = "grammar" -> "/grammar/"
TermArg(termtype) ==
  CASE termtype = "word" -> "word_id"
    [] termtype = "kanji" -> "kanji"
    [] termtype = "grammar" -> "grammar_id"
ContainerArg(kind) == IF kind = "schedule" THEN "schedule_id" ELSE "list_id"
ContainerParam(kind) == IF kind = "schedule" THEN "sched_id" ELSE "list_id"

\* The tool call being served was passed to the client operation of tool t
Calling(t) ==
  /\ req.t = "tool"
  /\ req.name = t.name
  /\ fpc \in {"awaiting", "answered"}

\* The one remote call of the operation goes to the resource of t's term
\* type with the method of t's verb, the term in the path and the container
\* under the parameter of its kind
OwnResource(t) ==
  /\ Len(calls) = 1
  /\ calls[1].method = VerbMethod(t.verb)
  /\ calls[1].endpoint =
       <<Resource(t.termtype)>> \o req.arguments[TermArg(t.termtype)]
  /\ DOMAIN calls[1].params = {ContainerParam(t.kind)}
  /\ calls[1].params[ContainerParam(t.kind)] = req.arguments[ContainerArg(t.kind)]

(* C22: every tool call that adds or removes a word, a kanji or a grammar   *)
(* goes to the resource of its own term type (word, kanji, grammar;         *)
(* remove_kanji_from_schedule included) with PUT for add and DELETE for     *)
(* remove, and with sched_id for a schedule and list_id for a list.         *)
C22_OwnResourceAndVerb ==
  \A t \in TermTools : Calling(t) => OwnResource(t)

\* The same for the eleven tools other than remove_kanji_from_schedule
C22_AllButKanjiFromSchedule ==
  \A t \in TermTools :
    (Calling(t) /\ t.name # "remove_kanji_from_schedule") => OwnResource(t)

\* remove_kanji_from_schedule for kanji "K" and schedule "7" issues
\* DELETE /word/K?sched_id=7
C22_KanjiRemovedAsWord ==
  /\ req.t = "tool"
  /\ req.name = "remove_kanji_from_schedule"
  /\ fpc = "awaiting"
  /\ calls = <<Call("DELETE", <<"/word/", "K">>, [sched_id |-> <<"7">>])>>

====
